---- MODULE Spec2Model ----
(***************************************************************************)
(* Model of src/components/Weather.jsx: the Weather component's state      *)
(* (query, data, loading, error, fetchTime, unit), its event handlers      *)
(* (onChange, onSubmit, toggleUnit, getCurrentLocationWeather), the        *)
(* asynchronous continuations of the two fetch paths, and the pure icon    *)
(* selector getWeatherIcon.                                                *)
(*                                                                         *)
(* JavaScript values that may be null/undefined are options: <<>> is the   *)
(* absent value, <<v>> the present value v.                                *)
(***************************************************************************)
EXTENDS Integers, Sequences, FiniteSets, TLC

VARIABLES
    apiKey,          \* API_KEY, read once at module load
    hasGeolocation,  \* whether navigator.geolocation exists
    query,           \* useState('')      search box text
    data,            \* useState(null)    stored response body
    loading,         \* useState(false)
    error,           \* useState('')
    fetchTime,       \* useState(null)    completion instant of the stored body
    unit,            \* useState('metric')
    icon,            \* what the last render put in <img src>
    pending,         \* asynchronous operations whose continuation has not run
    nIssued,         \* number of asynchronous fetch operations started so far
    shown,           \* the operation whose response body is stored in data
    netCalls         \* number of calls of fetch(url) made so far

vars == <<apiKey, hasGeolocation, query, data, loading, error, fetchTime,
          unit, icon, pending, nIssued, shown, netCalls>>

----------------------------------------------------------------------------
(* Bounds *)

\* asynchronous fetch operations started in one behaviour
MaxFetches == 2

----------------------------------------------------------------------------
(* Options *)

None == <<>>

Some(v) == <<v>>

----------------------------------------------------------------------------
(* Icon assets and the icon selector *)

clearIcon == "sun.png"

cloudyIcon == "cloudy.png"

rainyIcon == "rainy-day.png"

snowIcon == "snow.png"

stormIcon == "storm.png"

downpourIcon == "downpour.png"

atmosphericIcon == "atmospheric-conditions.png"

\* outcome of getWeatherIcon when reading .temp of an undefined main throws
TypeError == "TypeError"

\* x < n in JavaScript, x possibly undefined (undefined compares false)
JsLt(x, n) == x # None /\ x[1] < n

\* x >= n in JavaScript, x possibly undefined
JsGe(x, n) == x # None /\ x[1] >= n

\* x === n in JavaScript, x possibly undefined
JsEq(x, n) == x # None /\ x[1] = n

\* the four temperature thresholds for a unit
freezing(currentUnit) == IF currentUnit = "metric" THEN 0 ELSE 32

cold(currentUnit) == IF currentUnit = "metric" THEN 10 ELSE 50

\* cool with the imperial threshold off by one
cool_Imperial60(currentUnit) == IF currentUnit = "metric" THEN 15 ELSE 60

cool(currentUnit) == IF currentUnit = "metric" THEN 15 ELSE 59

\* warm with the metric threshold used for both units
warm_MetricOnly(currentUnit) == 25

warm(currentUnit) == IF currentUnit = "metric" THEN 25 ELSE 77

\* the temperature-based part of getWeatherIcon
TemperatureIcon(temp, conditionId, currentUnit) ==
    IF JsLt(temp, freezing(currentUnit)) THEN snowIcon
    ELSE IF JsLt(temp, cold(currentUnit)) THEN cloudyIcon
    ELSE IF JsLt(temp, cool(currentUnit)) THEN cloudyIcon
    ELSE IF JsLt(temp, warm(currentUnit))
         THEN (IF JsEq(conditionId, 800) THEN clearIcon ELSE cloudyIcon)
    ELSE clearIcon

\* ConditionIcon with 504 missing from the heavy-rain codes
ConditionIcon_Without504(conditionId) ==
    IF JsGe(conditionId, 200) /\ JsLt(conditionId, 300) THEN Some(stormIcon)
    ELSE IF (JsGe(conditionId, 300) /\ JsLt(conditionId, 400))
            \/ (JsGe(conditionId, 500) /\ JsLt(conditionId, 600))
         THEN (IF JsEq(conditionId, 502) \/ JsEq(conditionId, 503)
                  \/ JsEq(conditionId, 522)
               THEN Some(downpourIcon)
               ELSE Some(rainyIcon))
    ELSE IF JsGe(conditionId, 600) /\ JsLt(conditionId, 700) THEN Some(snowIcon)
    ELSE IF JsGe(conditionId, 700) /\ JsLt(conditionId, 800)
         THEN Some(atmosphericIcon)
    ELSE None

\* the condition-code part of getWeatherIcon; None when no family matches
ConditionIcon(conditionId) ==
    IF JsGe(conditionId, 200) /\ JsLt(conditionId, 300) THEN Some(stormIcon)
    ELSE IF (JsGe(conditionId, 300) /\ JsLt(conditionId, 400))
            \/ (JsGe(conditionId, 500) /\ JsLt(conditionId, 600))
         THEN (IF JsEq(conditionId, 502) \/ JsEq(conditionId, 503)
                  \/ JsEq(conditionId, 504) \/ JsEq(conditionId, 522)
               THEN Some(downpourIcon)
               ELSE Some(rainyIcon))
    ELSE IF JsGe(conditionId, 600) /\ JsLt(conditionId, 700) THEN Some(snowIcon)
    ELSE IF JsGe(conditionId, 700) /\ JsLt(conditionId, 800)
         THEN Some(atmosphericIcon)
    ELSE None

\* getWeatherIcon(weatherData, currentUnit); weatherData is an option
getWeatherIcon(weatherData, currentUnit) ==
    IF weatherData = None \/ weatherData[1].weather = None
       \/ weatherData[1].weather[1] = <<>>
    THEN cloudyIcon
    ELSE IF weatherData[1].main = None THEN TypeError
    ELSE LET temp == weatherData[1].main[1].temp
             conditionId == weatherData[1].weather[1][1].id
         IN  IF ConditionIcon(conditionId) # None
             THEN ConditionIcon(conditionId)[1]
             ELSE TemperatureIcon(temp, conditionId, currentUnit)

\* the src of the <img> the component renders: none while data is null
NoIcon == "none"

RenderedIcon(d, u) == IF d = None THEN NoIcon ELSE getWeatherIcon(d, u)

\* getUnitSymbol
getUnitSymbol(u) == IF u = "metric" THEN "C" ELSE "F"

----------------------------------------------------------------------------
(* JSON bodies and HTTP responses *)

\* a JSON object with the fields the component reads; absent fields are None
JsonObj(c, m, n, mn, w) ==
    [cod |-> c, message |-> m, name |-> n, main |-> mn, weather |-> w]

EmptyObj == JsonObj(None, None, None, None, None)

\* the outcome of res.json(): a rejected parse, the JSON value null, or an object
ParseFail == [parse |-> "fail", obj |-> EmptyObj]

JsonNull == [parse |-> "null", obj |-> EmptyObj]

JsonBody(o) == [parse |-> "object", obj |-> o]

\* the outcome of fetch(url): a rejection, or a response with a status
Rejected(msg) ==
    [kind |-> "reject", message |-> msg, status |-> 0, statusText |-> "",
     body |-> ParseFail]

Http(st, txt, b) ==
    [kind |-> "http", message |-> "", status |-> st, statusText |-> txt,
     body |-> b]

\* res.ok
ResOk(res) == res.status >= 200 /\ res.status <= 299

\* a string-valued option is truthy when present and non-empty
Truthy(s) == s # None /\ s[1] # ""

----------------------------------------------------------------------------
(* Error messages *)

ErrNoKey == "No API key found. Add VITE_OPENWEATHER_API_KEY to .env"

ErrUnauthorized == "API key invalid or not activated yet."

ErrNotFound == "City not found. Please check the spelling and try again."

ErrRateLimited == "Too many requests. Please wait a moment and try again."

ErrProvider == "OpenWeatherMap service error."

ErrInvalidResponse == "Invalid response from weather API"

ErrFetchFallback == "Failed to fetch weather data"

ErrLocationFallback == "Failed to fetch weather for your location"

ErrNoGeolocation == "Geolocation is not supported by your browser"

ErrLocationDenied == "Unable to get your location. Please enable location access."

\* messages of errors thrown by the runtime rather than by the component
MsgNetwork == "Failed to fetch"

MsgSyntax == "Unexpected token in JSON"

MsgNullRead == "Cannot read properties of null"

\* provider messages; the second one contains the text 500000
MsgProvider == "provider message"

MsgProvider500000 == "provider message 500000"

\* message.includes('500000')
Includes500000(s) == s = MsgProvider500000

\* errorData = await res.json().catch(() => ({}))
ErrorData(res) == IF res.body.parse = "fail" THEN JsonBody(EmptyObj) ELSE res.body

\* `Error: ${res.status} - ${res.statusText}`
StatusLine(res) == "Error: " \o ToString(res.status) \o " - " \o res.statusText

\* `Error: ${res.status}`
StatusOnly(res) == "Error: " \o ToString(res.status)

\* json is accepted when !(!json || !json.main || !json.weather) 
ValidBody(b) == b.parse = "object" /\ b.obj.main # None /\ b.obj.weather # None

\* The message of the error thrown inside the try block of
\* fetchWeatherWithUnit for a completed fetch, None when nothing is thrown.
CityThrown(res) ==
    IF res.kind = "reject" THEN Some(res.message)
    ELSE IF ~ResOk(res)
    THEN LET errorData == ErrorData(res)
         IN  IF res.status = 401 THEN Some(ErrUnauthorized)
             ELSE IF res.status = 404 THEN Some(ErrNotFound)
             ELSE IF res.status = 429 THEN Some(ErrRateLimited)
             ELSE IF errorData.parse = "null" THEN Some(MsgNullRead)
             ELSE IF errorData.obj.cod = Some(500000)
                     \/ (errorData.obj.message # None
                         /\ Includes500000(errorData.obj.message[1]))
                  THEN Some(ErrProvider)
             ELSE IF Truthy(errorData.obj.message)
                  THEN errorData.obj.message
             ELSE Some(StatusLine(res))
    ELSE IF res.body.parse = "fail" THEN Some(MsgSyntax)
    ELSE IF ~ValidBody(res.body) THEN Some(ErrInvalidResponse)
    ELSE None

\* The message of the error thrown inside the try block of the position
\* callback of getCurrentLocationWeather, None when nothing is thrown.
CoordsThrown(res) ==
    IF res.kind = "reject" THEN Some(res.message)
    ELSE IF ~ResOk(res)
    THEN LET errorData == ErrorData(res)
         IN  IF errorData.parse = "null" THEN Some(MsgNullRead)
             ELSE IF Truthy(errorData.obj.message)
                  THEN errorData.obj.message
             ELSE Some(StatusOnly(res))
    ELSE IF res.body.parse = "fail" THEN Some(MsgSyntax)
    ELSE IF ~ValidBody(res.body) THEN Some(ErrInvalidResponse)
    ELSE None

\* err.message || fallback
MessageOr(m, fallback) == IF Truthy(m) THEN m[1] ELSE fallback

----------------------------------------------------------------------------
(* The environment: what the user types, where the device is, what the     *)
(* provider knows and answers                                              *)

Units == {"metric", "imperial"}

\* the texts the user may type into the search box
Cities == {"A", "B"}

QueryTexts == Cities \cup {""}

\* the position reported by the device
Positions == {"lat,lon"}

\* the place names the provider resolves a position to ("" away from any place)
PlaceNames == {"A", ""}

\* the condition codes and Celsius temperatures the provider reports
ServerCodes == {800, 211}

ServerTempsC == {20}

\* the provider re-supplies temperatures in the requested unit
ToUnit(c, u) == IF u = "metric" THEN c ELSE (9 * c) \div 5 + 32

\* non-success statuses the provider answers with, and their reason phrases
ErrorStatuses == {401, 404, 429, 500}

StatusText(st) ==
    CASE st = 200 -> "OK"
      [] st = 401 -> "Unauthorized"
      [] st = 404 -> "Not Found"
      [] st = 429 -> "Too Many Requests"
      [] OTHER    -> "Internal Server Error"

\* bodies of non-success responses
ErrorBodies(st) ==
    { ParseFail, JsonNull,
      JsonBody(JsonObj(Some(st), Some(MsgProvider), None, None, None)),
      JsonBody(JsonObj(Some(st), Some(MsgProvider500000), None, None, None)),
      JsonBody(JsonObj(Some(500000), None, None, None, None)) }

\* the names the provider may put in the body answering request r
NamesFor(r) == IF r.kind = "city" THEN {r.q} ELSE PlaceNames

\* bodies of success responses to request r
SuccessBodies(r) ==
    { ParseFail, JsonNull }
    \cup { JsonBody(JsonObj(None, None, Some(n), mn, w)) :
             n \in NamesFor(r),
             mn \in { None } \cup
                    { Some([temp |-> Some(ToUnit(c, r.units))]) : c \in ServerTempsC },
             w \in { None, Some(<<>>) } \cup
                   { Some(<<[id |-> Some(k)]>>) : k \in ServerCodes } }

\* what fetch(url) may resolve to for request r; a request without a key
\* is rejected by the provider with 401
Responses(r) ==
    { Rejected(MsgNetwork) }
    \cup UNION { { Http(st, StatusText(st), b) : b \in ErrorBodies(st) } :
                   st \in (IF r.appid = "" THEN {401} ELSE ErrorStatuses) }
    \cup (IF r.appid = "" THEN {}
          ELSE { Http(200, StatusText(200), b) : b \in SuccessBodies(r) })

----------------------------------------------------------------------------
(* The component *)

\* an asynchronous operation in progress: the closure of its continuation
Request(i, k, city, u, st) ==
    [id |-> i, kind |-> k, q |-> city, units |-> u, appid |-> apiKey,
     stage |-> st]

\* the request of an operation, without its progress
Origin(r) == [kind |-> r.kind, q |-> r.q, units |-> r.units]

\* re-render after a state change
Render == icon' = RenderedIcon(data', unit')

Init ==
    /\ apiKey \in {"", "key"}
    /\ hasGeolocation \in BOOLEAN
    /\ query = ""
    /\ data = None
    /\ loading = FALSE
    /\ error = ""
    /\ fetchTime = None
    /\ unit = "metric"
    /\ icon = NoIcon
    /\ pending = {}
    /\ nIssued = 0
    /\ shown = None
    /\ netCalls = 0

\* fetchWeatherWithUnit(city, specificUnit) up to its await of fetch(url)
fetchWeatherWithUnit(city, specificUnit) ==
    IF apiKey = ""
    THEN /\ error' = ErrNoKey
         /\ UNCHANGED <<loading, data, shown, pending, nIssued, netCalls>>
    ELSE /\ nIssued < MaxFetches
         /\ loading' = TRUE
         /\ error' = ""
         /\ data' = None
         /\ shown' = None
         /\ nIssued' = nIssued + 1
         /\ netCalls' = netCalls + 1
         /\ pending' = pending \cup
                {Request(nIssued + 1, "city", city, specificUnit, "fetch")}

\* the search box's onChange
onChange(text) ==
    /\ query' = text
    /\ UNCHANGED <<apiKey, hasGeolocation, data, loading, error, fetchTime,
                   unit, pending, nIssued, shown, netCalls>>
    /\ Render

\* the form's onSubmit, through fetchWeather
onSubmit ==
    /\ IF query = ""
       THEN UNCHANGED <<loading, error, data, shown, pending, nIssued, netCalls>>
       ELSE fetchWeatherWithUnit(query, unit)
    /\ UNCHANGED <<apiKey, hasGeolocation, query, fetchTime, unit>>
    /\ Render

\* toggleUnit re-fetching whenever the search box is non-empty, result or not
toggleUnit_AlwaysFetch ==
    LET newUnit == IF unit = "metric" THEN "imperial" ELSE "metric"
    IN  /\ unit' = newUnit
        /\ IF query # ""
           THEN fetchWeatherWithUnit(query, newUnit)
           ELSE UNCHANGED <<loading, error, data, shown, pending, nIssued, netCalls>>
        /\ UNCHANGED <<apiKey, hasGeolocation, query, fetchTime>>
        /\ Render

\* the unit button's onClick
toggleUnit ==
    LET newUnit == IF unit = "metric" THEN "imperial" ELSE "metric"
    IN  /\ unit' = newUnit
        /\ IF data # None /\ query # ""
           THEN fetchWeatherWithUnit(query, newUnit)
           ELSE UNCHANGED <<loading, error, data, shown, pending, nIssued, netCalls>>
        /\ UNCHANGED <<apiKey, hasGeolocation, query, fetchTime>>
        /\ Render

\* getCurrentLocationWeather calling fetch before asking for the position
getCurrentLocationWeather_FetchFirst ==
    /\ IF ~hasGeolocation
       THEN /\ error' = ErrNoGeolocation
            /\ UNCHANGED <<loading, pending, nIssued, netCalls>>
       ELSE /\ nIssued < MaxFetches
            /\ loading' = TRUE
            /\ error' = ""
            /\ nIssued' = nIssued + 1
            /\ netCalls' = netCalls + 1
            /\ pending' = pending \cup
                   {Request(nIssued + 1, "coords", "", unit, "fetch")}
    /\ UNCHANGED <<apiKey, hasGeolocation, query, data, shown, fetchTime, unit>>
    /\ Render

\* the My Location button's onClick, up to getCurrentPosition
getCurrentLocationWeather ==
    /\ IF ~hasGeolocation
       THEN /\ error' = ErrNoGeolocation
            /\ UNCHANGED <<loading, pending, nIssued>>
       ELSE /\ nIssued < MaxFetches
            /\ loading' = TRUE
            /\ error' = ""
            /\ nIssued' = nIssued + 1
            /\ pending' = pending \cup
                   {Request(nIssued + 1, "coords", "", unit, "position")}
    /\ UNCHANGED <<apiKey, hasGeolocation, query, data, shown, fetchTime, unit,
                   netCalls>>
    /\ Render

\* getCurrentPosition's success callback up to its await of fetch(url)
PositionSuccess(r, coords) ==
    /\ r \in pending /\ r.stage = "position"
    /\ pending' = (pending \ {r}) \cup {[r EXCEPT !.q = coords, !.stage = "fetch"]}
    /\ netCalls' = netCalls + 1
    /\ UNCHANGED <<apiKey, hasGeolocation, query, data, loading, error,
                   fetchTime, unit, nIssued, shown>>
    /\ Render

\* the error callback without setLoading(false)
PositionError_KeepsLoading(r) ==
    /\ r \in pending /\ r.stage = "position"
    /\ error' = ErrLocationDenied
    /\ pending' = pending \ {r}
    /\ UNCHANGED <<apiKey, hasGeolocation, query, data, fetchTime, unit,
                   nIssued, shown, netCalls, loading>>
    /\ Render

\* getCurrentPosition's error callback
PositionError(r) ==
    /\ r \in pending /\ r.stage = "position"
    /\ loading' = FALSE
    /\ error' = ErrLocationDenied
    /\ pending' = pending \ {r}
    /\ UNCHANGED <<apiKey, hasGeolocation, query, data, fetchTime, unit,
                   nIssued, shown, netCalls>>
    /\ Render

\* fetchWeatherWithUnit calling fetch a second time after a network failure
CityResponse_RetryOnce(r, res) ==
    /\ r \in pending /\ r.kind = "city" /\ r.stage = "fetch"
    /\ IF res.kind = "reject"
       THEN /\ pending' = (pending \ {r}) \cup {[r EXCEPT !.stage = "retry"]}
            /\ netCalls' = netCalls + 1
            /\ UNCHANGED <<data, fetchTime, shown, error, loading>>
       ELSE /\ IF CityThrown(res) = None
               THEN /\ data' = Some(res.body.obj)
                    /\ fetchTime' = Some(r.id)
                    /\ shown' = Some(Origin(r))
                    /\ UNCHANGED error
               ELSE /\ error' = MessageOr(CityThrown(res), ErrFetchFallback)
                    /\ UNCHANGED <<data, fetchTime, shown>>
            /\ loading' = FALSE
            /\ pending' = pending \ {r}
            /\ UNCHANGED netCalls
    /\ UNCHANGED <<apiKey, hasGeolocation, query, unit, nIssued>>
    /\ Render

\* fetchWeatherWithUnit from the completion of fetch(url) to its end
CityResponse(r, res) ==
    /\ r \in pending /\ r.kind = "city" /\ r.stage = "fetch"
    /\ IF CityThrown(res) = None
       THEN /\ data' = Some(res.body.obj)
            /\ fetchTime' = Some(r.id)
            /\ shown' = Some(Origin(r))
            /\ UNCHANGED error
       ELSE /\ error' = MessageOr(CityThrown(res), ErrFetchFallback)
            /\ UNCHANGED <<data, fetchTime, shown>>
    /\ loading' = FALSE
    /\ pending' = pending \ {r}
    /\ UNCHANGED <<apiKey, hasGeolocation, query, unit, nIssued, netCalls>>
    /\ Render

\* the position callback without setQuery(json.name)
CoordsResponse_NoSetQuery(r, res) ==
    /\ r \in pending /\ r.kind = "coords" /\ r.stage = "fetch"
    /\ IF CoordsThrown(res) = None
       THEN /\ data' = Some(res.body.obj)
            /\ fetchTime' = Some(r.id)
            /\ shown' = Some(Origin(r))
            /\ UNCHANGED error
       ELSE /\ error' = MessageOr(CoordsThrown(res), ErrLocationFallback)
            /\ UNCHANGED <<data, fetchTime, shown>>
    /\ loading' = FALSE
    /\ pending' = pending \ {r}
    /\ UNCHANGED <<apiKey, hasGeolocation, unit, nIssued, netCalls, query>>
    /\ Render

\* the position callback from the completion of fetch(url) to its end
CoordsResponse(r, res) ==
    /\ r \in pending /\ r.kind = "coords" /\ r.stage = "fetch"
    /\ IF CoordsThrown(res) = None
       THEN /\ data' = Some(res.body.obj)
            /\ fetchTime' = Some(r.id)
            /\ shown' = Some(Origin(r))
            /\ query' = res.body.obj.name[1]
            /\ UNCHANGED error
       ELSE /\ error' = MessageOr(CoordsThrown(res), ErrLocationFallback)
            /\ UNCHANGED <<data, fetchTime, shown, query>>
    /\ loading' = FALSE
    /\ pending' = pending \ {r}
    /\ UNCHANGED <<apiKey, hasGeolocation, unit, nIssued, netCalls>>
    /\ Render

\* the operations of one fetch path that are awaiting fetch(url)
InFlightOf(k) == { r \in pending : r.kind = k /\ r.stage = "fetch" }

Next ==
    \/ \E text \in QueryTexts : onChange(text)
    \/ onSubmit
    \/ toggleUnit
    \/ getCurrentLocationWeather
    \/ \E r \in pending : \E coords \in Positions : PositionSuccess(r, coords)
    \/ \E r \in pending : PositionError(r)
    \/ \E r \in InFlightOf("city") : \E res \in Responses(r) : CityResponse(r, res)
    \/ \E r \in InFlightOf("coords") : \E res \in Responses(r) : CoordsResponse(r, res)

Spec == Init /\ [][Next]_vars

\* the host delivers every position callback and the transport every response
PositionCallback ==
    \E r \in pending :
        \/ \E coords \in Positions : PositionSuccess(r, coords)
        \/ PositionError(r)

ResponseArrives ==
    \/ \E r \in InFlightOf("city") : \E res \in Responses(r) : CityResponse(r, res)
    \/ \E r \in InFlightOf("coords") : \E res \in Responses(r) : CoordsResponse(r, res)

FairSpec ==
    Init /\ [][Next]_vars /\ WF_vars(PositionCallback) /\ WF_vars(ResponseArrives)

----------------------------------------------------------------------------
(* The icon selector on its own: every input in the bounds, then one call *)

MinCode == 195

MaxCode == 805

\* degrees below zero covered by the temperature range
BelowZero == 5

MinTemp == 0 - BelowZero

MaxTemp == 80

\* a response body as getWeatherIcon reads it
WeatherData(mn, w) == Some(JsonObj(None, None, None, mn, w))

\* well-formed inputs: a condition code and a temperature
WellFormedInputs ==
    { WeatherData(Some([temp |-> Some(t)]), Some(<<[id |-> Some(k)]>>)) :
        t \in MinTemp..MaxTemp, k \in MinCode..MaxCode }

\* inputs with a part missing
MalformedInputs ==
    { None,
      WeatherData(Some([temp |-> Some(MaxTemp)]), None),
      WeatherData(Some([temp |-> Some(MaxTemp)]), Some(<<>>)),
      WeatherData(None, Some(<<[id |-> Some(MaxCode)]>>)) }
    \cup { WeatherData(Some([temp |-> Some(t)]), Some(<<[id |-> None]>>)) :
             t \in MinTemp..MaxTemp }
    \cup { WeatherData(Some([temp |-> None]), Some(<<[id |-> Some(k)]>>)) :
             k \in {MinCode, MaxCode} }

IconInit ==
    /\ apiKey = "key"
    /\ hasGeolocation = TRUE
    /\ query = ""
    /\ data \in WellFormedInputs \cup MalformedInputs
    /\ loading = FALSE
    /\ error = ""
    /\ fetchTime = None
    /\ unit \in Units
    /\ icon = NoIcon
    /\ pending = {}
    /\ nIssued = 0
    /\ shown = None
    /\ netCalls = 0

\* one call getWeatherIcon(data, unit)
SelectIcon ==
    /\ icon = NoIcon
    /\ icon' = getWeatherIcon(data, unit)
    /\ UNCHANGED <<apiKey, hasGeolocation, query, data, loading, error,
                   fetchTime, unit, pending, nIssued, shown, netCalls>>

IconNext == SelectIcon

IconSpec == IconInit /\ [][IconNext]_vars

----------------------------------------------------------------------------
(* Properties *)

\* the operations in progress, by issue number
Ids(p) == { r.id : r \in p }

\* C1: once two fetches issued one after the other have both completed, the
\* stored result/error is the outcome of the later-issued one: a fetch that
\* completes after a later-issued fetch has completed changes neither the
\* stored result nor the stored error.
C1_LaterIssuedWins ==
    [][ (\E i \in Ids(pending) :
            /\ i \notin Ids(pending')
            /\ \E j \in (i + 1)..nIssued : j \notin Ids(pending))
        => (data' = data /\ error' = error) ]_vars

\* C2: in every reachable state at most one of (loading is true, data is
\* non-null, error is non-empty) holds.
C2_OneFetchState ==
    Cardinality({ b \in { <<"loading", loading>>, <<"data", data # None>>,
                          <<"error", error # "">> } : b[2] }) <= 1

\* C3: every step that starts a fetch (submit, unit-toggle re-fetch or My
\* Location) leaves the state Loading with no result and no error.
C3_StartClears ==
    [][ nIssued' = nIssued + 1
        => (loading' /\ data' = None /\ error' = "") ]_vars

\* C4: without an API key no network request is ever in flight, and the only
\* error a fetch path reports is the missing-credential one (the location
\* errors aside, which precede the fetch).
C4_NoKeyNoRequest ==
    apiKey = "" =>
        /\ \A r \in pending : r.stage # "fetch"
        /\ error \in {"", ErrNoKey, ErrNoGeolocation, ErrLocationDenied}

\* C5: a stored result always has the main-measurements section and a
\* non-empty weather-conditions list.
C5_StoredBodyComplete ==
    data # None =>
        /\ data[1].main # None
        /\ data[1].weather # None
        /\ data[1].weather[1] # <<>>

\* the message thrown by the continuation of request r on response res
Thrown(r, res) == IF r.kind = "city" THEN CityThrown(res) ELSE CoordsThrown(res)

\* the body of a non-success response carries the provider code 500000
ProviderCode500000(res) ==
    /\ res.body.parse = "object"
    /\ \/ res.body.obj.cod = Some(500000)
       \/ (res.body.obj.message # None /\ Includes500000(res.body.obj.message[1]))

\* the messages of the classified error kinds
ClassifiedMessages == {ErrUnauthorized, ErrNotFound, ErrRateLimited, ErrProvider}

\* C6: on both fetch paths a non-success response is classified by status:
\* 401 Unauthorized, 404 NotFound, 429 RateLimited, otherwise provider code
\* 500000 ProviderMisconfigured, otherwise Unknown carrying the provider
\* message or the raw status.
C6_ClassifiedByStatus ==
    \A r \in pending : r.stage = "fetch" =>
        \A res \in Responses(r) : (res.kind = "http" /\ ~ResOk(res)) =>
            LET m == Thrown(r, res)
            IN  /\ m # None
                /\ IF res.status = 401 THEN m[1] = ErrUnauthorized
                   ELSE IF res.status = 404 THEN m[1] = ErrNotFound
                   ELSE IF res.status = 429 THEN m[1] = ErrRateLimited
                   ELSE IF ProviderCode500000(res) THEN m[1] = ErrProvider
                   ELSE /\ m[1] \notin ClassifiedMessages
                        /\ (res.body.parse = "object" /\ Truthy(res.body.obj.message))
                               => m[1] = res.body.obj.message[1]
                        /\ res.body.parse = "fail"
                               => m[1] \in {StatusLine(res), StatusOnly(res)}

\* C7: every step that reports an error leaves the state Failed: the error is
\* non-empty, loading is false and no result is stored.
C7_ErrorMeansFailed ==
    [][ (error' # error /\ error' # "")
        => (loading' = FALSE /\ data' = None) ]_vars

\* C8: toggling the unit while a result is displayed starts exactly one new
\* fetch, for the query that produced the displayed result and the new unit.
C8_ToggleRefetchesSameQuery ==
    [][ (unit' # unit /\ data # None)
        => \E r \in pending' :
              /\ r \notin pending
              /\ pending' = pending \cup {r}
              /\ r.kind = shown[1].kind
              /\ r.q = shown[1].q
              /\ r.units = unit' ]_vars

\* C9: whenever a result is displayed, the unit used for its temperature
\* symbol and its icon thresholds is the unit of the request that produced it.
C9_DisplayUnitIsRequestUnit ==
    data # None => unit = shown[1].units

\* the condition code of a well-formed input
HasCode(d) ==
    /\ d # None
    /\ d[1].main # None
    /\ d[1].weather # None
    /\ d[1].weather[1] # <<>>
    /\ d[1].weather[1][1].id # None

CodeOf(d) == d[1].weather[1][1].id[1]

HeavyRainCodes == {502, 503, 504, 522}

\* C10: for a code in a severe-weather family the icon is decided by the code
\* alone, for every temperature and either unit: [200,300) Storm; [300,400)
\* or [500,600) Downpour exactly for 502, 503, 504, 522 and Rainy otherwise;
\* [600,700) Snow; [700,800) Atmospheric.
C10_SevereByCode ==
    (icon # NoIcon /\ HasCode(data)) =>
        LET c == CodeOf(data)
        IN  /\ (c >= 200 /\ c < 300) => icon = stormIcon
            /\ ((c >= 300 /\ c < 400) \/ (c >= 500 /\ c < 600)) =>
                   icon = (IF c \in HeavyRainCodes THEN downpourIcon ELSE rainyIcon)
            /\ (c >= 600 /\ c < 700) => icon = snowIcon
            /\ (c >= 700 /\ c < 800) => icon = atmosphericIcon

\* a heavy-rain code selected Downpour although the temperature is in the
\* warm band
C10_Witness ==
    /\ HasCode(data)
    /\ CodeOf(data) = 504
    /\ data[1].main[1].temp = Some(MaxTemp)
    /\ unit = "metric"
    /\ icon = downpourIcon

\* the temperature of an input that has one
HasTemp(d) ==
    /\ d # None
    /\ d[1].main # None
    /\ d[1].main[1].temp # None

TempOf(d) == d[1].main[1].temp[1]

\* C11: for every condition code of 800 or more the icon follows the
\* unit-scaled temperature bands (freezing 0/32, cool 15/59, warm 25/77):
\* below freezing Snow, from freezing up to cool Cloudy, from cool up to warm
\* Clear exactly when the code is 800 and Cloudy otherwise, warm or above Clear.
C11_TemperatureBands ==
    (icon # NoIcon /\ HasCode(data) /\ HasTemp(data) /\ CodeOf(data) >= 800) =>
        LET c == CodeOf(data)
            t == TempOf(data)
            fr == IF unit = "metric" THEN 0 ELSE 32
            co == IF unit = "metric" THEN 15 ELSE 59
            wa == IF unit = "metric" THEN 25 ELSE 77
        IN  icon = (IF t < fr THEN snowIcon
                    ELSE IF t < co THEN cloudyIcon
                    ELSE IF t < wa THEN (IF c = 800 THEN clearIcon ELSE cloudyIcon)
                    ELSE clearIcon)

\* code 801 at 60 degrees Fahrenheit, in the band from cool up to warm,
\* selected Cloudy
C11_Witness ==
    /\ HasCode(data) /\ HasTemp(data)
    /\ CodeOf(data) = 801
    /\ TempOf(data) = 60
    /\ unit = "imperial"
    /\ icon = cloudyIcon

\* an input without a condition code
Malformed(d) ==
    \/ d = None
    \/ d[1].weather = None
    \/ d[1].weather[1] = <<>>
    \/ d[1].weather[1][1].id = None

\* C12: the icon selector never fails, and for an absent condition code or a
\* malformed input (no result, no weather list, an empty weather list, a
\* first weather entry without a code) it returns Cloudy for every
\* temperature and either unit.
C12_TotalCloudyDefault ==
    icon # NoIcon =>
        /\ icon # TypeError
        /\ Malformed(data) => icon = cloudyIcon

\* the Fahrenheit equivalent of a Celsius temperature that is a multiple of 5
Fahrenheit(t) == (9 * t) \div 5 + 32

\* C13: unit-threshold equivalence: for every condition code and every
\* Celsius temperature t that is a multiple of 5, the icon selected for
\* (code, t, Metric) is the icon selected for (code, 9t/5+32, Imperial).
C13_UnitEquivalence ==
    (icon # NoIcon /\ unit = "metric" /\ HasCode(data) /\ HasTemp(data)
       /\ TempOf(data) % 5 = 0) =>
        icon = getWeatherIcon(
                  WeatherData(Some([temp |-> Some(Fahrenheit(TempOf(data)))]),
                              data[1].weather),
                  "imperial")

\* code 800 at 15 degrees Celsius, the cool threshold itself, selected Clear
C13_Witness ==
    /\ HasCode(data) /\ HasTemp(data)
    /\ CodeOf(data) = 800
    /\ TempOf(data) = 15
    /\ unit = "metric"
    /\ icon = clearIcon

\* the network requests in flight
InFlight(p) == { r \in p : r.stage = "fetch" }

\* C14: at every moment at most one network request is in flight.
C14_SingleInFlight == Cardinality(InFlight(pending)) <= 1

\* C15: each user action causes at most one network request and no request
\* is issued without one: the requests made never exceed the operations the
\* user started, a step makes at most one request, and the step in which an
\* operation ends makes none (nothing is retried).
C15_OneRequestPerAction ==
    [][ /\ netCalls' <= nIssued'
        /\ netCalls' <= netCalls + 1
        /\ nIssued' <= nIssued + 1
        /\ (Ids(pending) \ Ids(pending') # {}) => netCalls' = netCalls ]_vars

\* two fetches were started, each made its one request, both have ended,
\* the last one in error
C15_Witness ==
    /\ nIssued = 2
    /\ netCalls = 2
    /\ pending = {}
    /\ error # ""
    /\ ~loading

C17_NoRequestBeforePosition ==
    [][ /\ \A r \in pending' : r.kind = "coords" =>
              /\ hasGeolocation
              /\ r.stage = "fetch" => r.q \in Positions
              /\ r.stage = "position" => r.q = ""
        /\ \A r \in pending' : (r.kind = "coords" /\ r.id \notin Ids(pending)) =>
              (r.stage = "position" /\ netCalls' = netCalls)
        /\ \A r \in pending :
              (r.kind = "coords" /\ r.stage = "position"
                 /\ r.id \notin Ids(pending')) =>
              (error' = ErrLocationDenied /\ netCalls' = netCalls)
        /\ (error' = ErrNoGeolocation /\ error # ErrNoGeolocation) =>
              (netCalls' = netCalls /\ pending' = pending) ]_vars

\* a My Location flow ended in the location error without any request
C17_Witness ==
    /\ nIssued = 1
    /\ netCalls = 0
    /\ pending = {}
    /\ error = ErrLocationDenied

\* C18: when a My Location fetch completes successfully the search query is
\* set to the place name of the stored result in the same step; a My Location
\* fetch that fails leaves the search query unchanged.
C18_QueryFollowsPlaceName ==
    [][ \A r \in pending :
          (r.kind = "coords" /\ r.id \notin Ids(pending')) =>
              IF fetchTime' = Some(r.id)
              THEN data' # None /\ query' = data'[1].name[1]
              ELSE query' = query ]_vars

\* a My Location result is stored and its place name is in the search box
C18_Witness ==
    /\ shown # None
    /\ shown[1].kind = "coords"
    /\ data # None
    /\ data[1].name = Some("A")
    /\ query = "A"

\* C19: loading is true in every state where a network request or a
\* geolocation lookup is still pending.
C19_LoadingWhilePending == pending # {} => loading

\* C20: a user action that starts no fetch leaves the fetch state untouched:
\* no request is ever made for an empty search box, and toggling the unit
\* while no result is displayed changes only the unit.
C20_NoFetchNoChange ==
    [][ /\ \A r \in pending' : r.kind = "city" => r.q # ""
        /\ (unit' # unit /\ data = None) =>
              UNCHANGED <<data, error, loading, pending, nIssued, netCalls,
                          query, fetchTime, shown>> ]_vars

\* the unit was toggled with a search text typed and no result displayed:
\* nothing was fetched
C20_Witness ==
    /\ unit = "imperial"
    /\ query # ""
    /\ data = None
    /\ nIssued = 0
    /\ error = ""
    /\ ~loading

====
